---- MODULE Spec2Model ----
(***************************************************************************)
(* Model of the JarvisApp chat component                                   *)
(* (anime-jarvis-ai/src/pages/jarvis_psycho_pass_app.tsx): the React state *)
(* of the component, the WebSocket objects it creates, the reconnect       *)
(* timers it sets, and the HTTP upload requests it has in flight.          *)
(*                                                                         *)
(* A JavaScript string is modelled as a sequence of string fragments; the  *)
(* fragment " " is a run of whitespace.  Concatenation is \o.              *)
(*                                                                         *)
(* Every step is one task of the event loop: a handler runs to completion  *)
(* and the state updates it requests are applied.  Updates requested by    *)
(* socket and fetch callbacks after the cleanup of the mount effect are    *)
(* applied like any other; the controls of the view act only while the     *)
(* component is mounted.                                                   *)
(***************************************************************************)
EXTENDS Integers, Sequences, FiniteSets, TLC

VARIABLES
    messages,           \* useState([])             line 60
    inputText,          \* useState('')             line 61
    isThinking,         \* useState(false)          line 62
    webSearchEnabled,   \* useState(false)          line 63
    thinkingMode,       \* useState(false)          line 64
    selectedModel,      \* useState('phi3:3.8b')    line 66
    connectionStatus,   \* useState('disconnected') line 69
    wsRef,              \* useRef(null): 0 is null, else the index of a socket
    currentMessageRef,  \* useRef('')               line 73
    sockets,            \* every WebSocket object constructed so far
    timers,             \* pending setTimeout(connectWebSocket, 3000) calls
    sent,               \* frames handed to WebSocket.send, in order
    uploads,            \* POST /api/upload requests awaiting their response
    now,                \* Date.now()
    phase,              \* "init" (before the mount effect), "mounted", "unmounted"
    connectCalls,       \* number of connectWebSocket calls made so far
    run,                \* the chunk run in progress, or NoRun
    lastOp,             \* the handler or environment step taken last
    plugins,            \* useState([])             line 65
    backendPlugins,     \* the enabled flag the backend holds for each plugin
    toggles,            \* POST /api/plugins/toggle requests in flight
    currentTheme,       \* useState('psychopass')   line 58
    backendSettings,    \* the settings the backend holds (theme, model)
    settingsReqs,       \* GET and POST /api/settings requests in flight
    persisted,          \* the settings the backend held at startup
    sessionFiles,       \* ai.ps1: the files session_<name>.json
    userFiles,          \* ai.ps1: the files named by -File and -Create
    apiCalls,           \* ai.ps1: Invoke-RestMethod calls made so far
    cliCall             \* ai.ps1: the parameters of the last call of ai

pluginVars == <<plugins, backendPlugins, toggles>>

\* the state outside the chat: no step of the chat changes it
settingsVars == <<currentTheme, backendSettings, settingsReqs, persisted>>
cliVars == <<sessionFiles, userFiles, apiCalls, cliCall>>
otherVars == <<pluginVars, settingsVars, cliVars>>

vars == <<messages, inputText, isThinking, webSearchEnabled, thinkingMode,
          selectedModel, connectionStatus, wsRef, currentMessageRef, sockets,
          timers, sent, uploads, now, phase, connectCalls, run, lastOp,
          otherVars>>

uiVars == <<inputText, webSearchEnabled, thinkingMode, selectedModel>>
connVars == <<connectionStatus, wsRef, sockets, timers, connectCalls>>

----------------------------------------------------------------------------
(* Bounds of the model *)

MaxMsgs == 3        \* messages are appended only while the list is shorter
MaxConnects == 3    \* connectWebSocket calls
MaxUploads == 1     \* upload requests in flight
MaxModifiers == 1   \* modifier controls away from their initial value
MaxToggles == 2     \* plugin toggle requests in flight
MaxApiCalls == 2    \* API requests made by the ai function
MaxClock == 3000    \* the clock stops advancing here
TickStep == 3000    \* milliseconds added by one Tick

(* Program constants *)

BackoffDelay == 3000
DefaultTheme == "psychopass"
OtherTheme == "animePastel"
Themes == {DefaultTheme, OtherTheme}
DefaultModel == "phi3:3.8b"
OtherModel == "gemma:2b"
Models == {DefaultModel, OtherModel}

(* Inputs *)

WS == " "
InputTexts == { <<>>, <<WS>>, <<"hi">> }
ChunkTexts == { <<"Hi">>, <<"Hi", " there">> }
ErrorTexts == { <<"boom">> }
FileLists == { <<>>, <<"a.txt">> }
UploadOutcomes == {"success", "failure", "throw"}
StatusValues == {"thinking", "idle"}
PluginIds == {"weather", "search"}
CliSessions == {"default", "work"}
CliFiles == {"code.py", "new.py"}
CliQuestions == { <<"q1">>, <<"q2">> }
CliModels == {"deepseek", "gpt5", "claude", "llama"}
CliAnswers == { <<"a1">>, <<"a2", WS>> }

NoRun == [active |-> FALSE]

----------------------------------------------------------------------------
(* Pure helpers *)

RECURSIVE TrimStart(_)
TrimStart(s) ==
    IF s = <<>> THEN <<>>
    ELSE IF Head(s) = WS THEN TrimStart(Tail(s)) ELSE s

RECURSIVE TrimEnd(_)
TrimEnd(s) ==
    IF s = <<>> THEN <<>>
    ELSE IF s[Len(s)] = WS THEN TrimEnd(SubSeq(s, 1, Len(s) - 1)) ELSE s

\* String.prototype.trim
Trim(s) == TrimEnd(TrimStart(s))

\* a missing field reads as undefined, which is falsy
Streaming(m) == IF "streaming" \in DOMAIN m THEN m.streaming ELSE FALSE

\* prev[prev.length - 1], with 0 standing for undefined
HasLast(prev) == Len(prev) > 0
Last(prev) == prev[Len(prev)]
ButLast(prev) == SubSeq(prev, 1, Len(prev) - 1)

\* {...m, streaming: v} and {...m, content: c}
WithStreaming(m, v) ==
    [f \in DOMAIN m \cup {"streaming"} |-> IF f = "streaming" THEN v ELSE m[f]]
WithContent(m, c) ==
    [f \in DOMAIN m \cup {"content"} |-> IF f = "content" THEN c ELSE m[f]]

----------------------------------------------------------------------------
(* Initial state: the values given to useState and useRef, before the      *)
(* mount effect has run.                                                   *)

ChatInit ==
    /\ messages = <<>>
    /\ inputText = <<>>
    /\ isThinking = FALSE
    /\ webSearchEnabled = FALSE
    /\ thinkingMode = FALSE
    /\ selectedModel = DefaultModel
    /\ connectionStatus = "disconnected"
    /\ wsRef = 0
    /\ currentMessageRef = <<>>
    /\ sockets = <<>>
    /\ timers = <<>>
    /\ sent = <<>>
    /\ uploads = <<>>
    /\ now = 0
    /\ phase = "init"
    /\ connectCalls = 0
    /\ run = NoRun
    /\ lastOp = "init"

\* nothing fetched and nothing requested yet
PluginsIdle ==
    /\ plugins = <<>>
    /\ backendPlugins = [p \in PluginIds |-> FALSE]
    /\ toggles = <<>>

\* no settings persisted and none requested yet
SettingsIdle ==
    /\ currentTheme = DefaultTheme
    /\ backendSettings = [theme |-> "", model |-> ""]
    /\ settingsReqs = <<>>
    /\ persisted = backendSettings

\* ai.ps1: the parameters of ai at their defaults, lines 2-13
NoCall ==
    [Question |-> <<>>, File |-> "", Edit |-> "", Create |-> "",
     Explain |-> FALSE, Model |-> "deepseek", Session |-> "default",
     Clear |-> FALSE, ListSessions |-> FALSE]

\* a file that does not exist
AbsentFile == [exists |-> FALSE, kind |-> "array", items |-> <<>>]

\* no session stored, code.py written by the user, no call made
CliIdle ==
    /\ sessionFiles = [n \in CliSessions |-> AbsentFile]
    /\ userFiles = [f \in CliFiles |->
                       IF f = "code.py"
                       THEN [exists |-> TRUE, content |-> <<"print(1)">>]
                       ELSE [exists |-> FALSE, content |-> <<>>]]
    /\ apiCalls = 0
    /\ cliCall = NoCall

Init ==
    /\ ChatInit
    /\ PluginsIdle
    /\ SettingsIdle
    /\ CliIdle

----------------------------------------------------------------------------
(* The browser's WebSocket objects.  readyState follows the WebSocket      *)
(* interface; opened tells whether the open event has fired; closeEvt is   *)
(* "queued" between the error event and the close event of the task that   *)
(* closes a failed connection, and "fired" afterwards.                     *)

NewSocket == [readyState |-> "CONNECTING", closeEvt |-> "none", opened |-> FALSE]

SocketIds == 1..Len(sockets)

\* the error and the close event of one socket are dispatched back to back
NoTask == \A s \in SocketIds : sockets[s].closeEvt # "queued"

\* WebSocket.close(): a socket that is connecting or open starts closing (a
\* connecting one then fails: its error and close events follow)
CloseSocket(ss, s) ==
    IF ss[s].readyState \in {"CONNECTING", "OPEN"}
    THEN [ss EXCEPT ![s].readyState = "CLOSING"]
    ELSE ss

\* setTimeout(fn, delay) called at the current time
NewTimer(delay) == [setAt |-> now, delay |-> delay]
Due(t) == t.setAt + t.delay

RemoveAt(seq, i) == SubSeq(seq, 1, i - 1) \o SubSeq(seq, i + 1, Len(seq))

----------------------------------------------------------------------------
(* connectWebSocket, lines 105-142.  throws is TRUE when the WebSocket     *)
(* constructor throws and the catch block runs.                            *)

connectWebSocket(throws) ==
    /\ connectCalls < MaxConnects
    /\ connectCalls' = connectCalls + 1
    /\ IF throws
       THEN /\ connectionStatus' = "error"
            /\ UNCHANGED <<sockets, wsRef>>
       ELSE /\ sockets' = Append(sockets, NewSocket)
            /\ wsRef' = Len(sockets) + 1
            /\ UNCHANGED connectionStatus

\* the mount effect, lines 78-87
Mount ==
    /\ UNCHANGED otherVars
    /\ phase = "init"
    /\ phase' = "mounted"
    /\ \E throws \in BOOLEAN : connectWebSocket(throws)
    /\ run' = NoRun
    /\ lastOp' = "mount"
    /\ UNCHANGED <<messages, isThinking, currentMessageRef, timers, sent,
                   uploads, now, uiVars>>

\* the cleanup of the mount effect, lines 88-93
Teardown ==
    /\ UNCHANGED otherVars
    /\ phase = "mounted"
    /\ NoTask
    /\ phase' = "unmounted"
    /\ sockets' = IF wsRef # 0 THEN CloseSocket(sockets, wsRef) ELSE sockets
    /\ run' = NoRun
    /\ lastOp' = "teardown"
    /\ UNCHANGED <<messages, isThinking, currentMessageRef, connectionStatus,
                   wsRef, timers, connectCalls, sent, uploads, now, uiVars>>

\* the timers left pending by a timer that repeats instead of firing once
TimersAfterFire_Interval(i) == timers

\* setTimeout: the timer that fires is pending no more
TimersAfterFire(i) == RemoveAt(timers, i)

\* a reconnect timer set by ws.onclose comes due and calls connectWebSocket
TimerFire ==
    /\ UNCHANGED otherVars
    /\ NoTask
    /\ \E i \in 1..Len(timers) :
        /\ now >= Due(timers[i])
        /\ timers' = TimersAfterFire(i)
        /\ \E throws \in BOOLEAN : connectWebSocket(throws)
    /\ run' = NoRun
    /\ lastOp' = "timer"
    /\ UNCHANGED <<messages, isThinking, currentMessageRef, sent, uploads,
                   now, phase, uiVars>>

\* ws.onopen starting the message list afresh
onopen_ClearsSession(s) ==
    /\ Len(messages) < MaxMsgs
    /\ connectionStatus' = "connected"
    /\ messages' = <<[id |-> now, type |-> "system",
                      content |-> <<"Connected to JARVIS. Ready to assist!">>,
                      timestamp |-> now]>>

\* ws.onopen, lines 109-118
onopen(s) ==
    /\ Len(messages) < MaxMsgs
    /\ connectionStatus' = "connected"
    /\ messages' = Append(messages,
           [id |-> now, type |-> "system",
            content |-> <<"Connected to JARVIS. Ready to assist!">>,
            timestamp |-> now])

WsOpen ==
    /\ UNCHANGED otherVars
    /\ NoTask
    /\ \E s \in SocketIds :
        /\ sockets[s].readyState = "CONNECTING"
        /\ sockets' = [sockets EXCEPT ![s].readyState = "OPEN",
                                      ![s].opened = TRUE]
        /\ onopen(s)
    /\ run' = NoRun
    /\ lastOp' = "open"
    /\ UNCHANGED <<isThinking, currentMessageRef, wsRef, timers, connectCalls,
                   sent, uploads, now, phase, uiVars>>

\* the server starts the closing handshake: readyState becomes CLOSING and
\* no event is dispatched
WsStartClosing ==
    /\ UNCHANGED otherVars
    /\ NoTask
    /\ \E s \in SocketIds :
        /\ sockets[s].readyState = "OPEN"
        /\ sockets' = [sockets EXCEPT ![s].readyState = "CLOSING"]
    /\ UNCHANGED <<messages, isThinking, currentMessageRef, connectionStatus,
                   wsRef, timers, connectCalls, sent, uploads, now, phase,
                   run, uiVars>>
    /\ lastOp' = "closing"

\* ws.onerror scheduling a reconnect of its own
onerror_Reconnects(s) ==
    /\ connectionStatus' = "error"
    /\ timers' = Append(timers, NewTimer(BackoffDelay))

\* ws.onerror, lines 125-128
onerror(s) ==
    /\ connectionStatus' = "error"
    /\ UNCHANGED timers

\* the connection fails: readyState becomes CLOSED, the error event is
\* dispatched and the close event follows in the same task
WsError ==
    /\ UNCHANGED otherVars
    /\ NoTask
    /\ \E s \in SocketIds :
        /\ sockets[s].readyState \in {"CONNECTING", "OPEN", "CLOSING"}
        /\ sockets' = [sockets EXCEPT ![s].readyState = "CLOSED",
                                      ![s].closeEvt = "queued"]
        /\ onerror(s)
    /\ run' = NoRun
    /\ lastOp' = "wsError"
    /\ UNCHANGED <<messages, isThinking, currentMessageRef, wsRef,
                   connectCalls, sent, uploads, now, phase, uiVars>>

\* ws.onclose reconnecting without the delay
onclose_NoDelay(s) ==
    /\ connectionStatus' = "disconnected"
    /\ timers' = Append(timers, NewTimer(0))

\* ws.onclose, lines 130-135
onclose(s) ==
    /\ connectionStatus' = "disconnected"
    /\ timers' = Append(timers, NewTimer(BackoffDelay))

\* the close event: after the error event of a failed connection, or on its
\* own when a connection that was established is closed
WsClose ==
    /\ UNCHANGED otherVars
    /\ \E s \in SocketIds :
        /\ \/ sockets[s].closeEvt = "queued"
           \/ /\ NoTask
              /\ sockets[s].readyState \in {"OPEN", "CLOSING"}
              /\ sockets[s].opened
        /\ sockets' = [sockets EXCEPT ![s].readyState = "CLOSED",
                                      ![s].closeEvt = "fired"]
        /\ onclose(s)
    /\ run' = NoRun
    /\ lastOp' = "wsClose"
    /\ UNCHANGED <<messages, isThinking, currentMessageRef, wsRef,
                   connectCalls, sent, uploads, now, phase, uiVars>>

\* time passes
Tick ==
    /\ UNCHANGED otherVars
    /\ NoTask
    /\ now + TickStep <= MaxClock
    /\ now' = now + TickStep
    /\ UNCHANGED <<messages, isThinking, currentMessageRef, sent, uploads,
                   phase, run, uiVars, connVars>>
    /\ lastOp' = "tick"

----------------------------------------------------------------------------
(* handleWebSocketMessage, lines 144-203 *)

InboundEvents ==
    [type : {"status"}, status : StatusValues]
        \cup [type : {"chunk"}, full : ChunkTexts]
        \cup [type : {"complete"}]
        \cup [type : {"error"}, message : ErrorTexts]
        \cup [type : {"pong"}]

\* case 'status' without the update of the busy flag
onStatus_Ignored(data) == UNCHANGED <<messages, isThinking, currentMessageRef>>

\* case 'status', lines 146-150
onStatus(data) ==
    /\ isThinking' = IF data.status = "thinking" THEN TRUE ELSE isThinking
    /\ UNCHANGED <<messages, currentMessageRef>>

\* chunkUpdater with the cumulative text appended to the content
chunkUpdater_Appends(prev, full) ==
    IF HasLast(prev) /\ Last(prev).type = "assistant" /\ Streaming(Last(prev))
    THEN Append(ButLast(prev), WithContent(Last(prev), Last(prev).content \o full))
    ELSE Append(prev, [id |-> now, type |-> "assistant", content |-> full,
                       timestamp |-> now, streaming |-> TRUE])

\* chunkUpdater without the test of the streaming flag
chunkUpdater_AnyAssistant(prev, full) ==
    IF HasLast(prev) /\ Last(prev).type = "assistant"
    THEN Append(ButLast(prev), WithContent(Last(prev), full))
    ELSE Append(prev, [id |-> now, type |-> "assistant", content |-> full,
                       timestamp |-> now, streaming |-> TRUE])

\* chunkUpdater replacing the last message whatever it is
chunkUpdater_ReplacesLast(prev, full) ==
    IF HasLast(prev)
    THEN Append(ButLast(prev), [id |-> now, type |-> "assistant",
                                content |-> full, timestamp |-> now,
                                streaming |-> TRUE])
    ELSE Append(prev, [id |-> now, type |-> "assistant", content |-> full,
                       timestamp |-> now, streaming |-> TRUE])

\* chunkUpdater appending a new message for every chunk
chunkUpdater_AlwaysNew(prev, full) ==
    Append(prev, [id |-> now, type |-> "assistant", content |-> full,
                  timestamp |-> now, streaming |-> TRUE])

\* the updater of case 'chunk', lines 155-171
chunkUpdater(prev, full) ==
    IF HasLast(prev) /\ Last(prev).type = "assistant" /\ Streaming(Last(prev))
    THEN Append(ButLast(prev), WithContent(Last(prev), full))
    ELSE Append(prev, [id |-> now, type |-> "assistant", content |-> full,
                       timestamp |-> now, streaming |-> TRUE])

\* case 'chunk', lines 152-172
onChunk(data) ==
    /\ Len(chunkUpdater(messages, data.full)) <= MaxMsgs
    /\ currentMessageRef' = data.full
    /\ messages' = chunkUpdater(messages, data.full)
    /\ UNCHANGED isThinking

\* the updater of case 'complete', lines 177-186
completeUpdater(prev) ==
    IF HasLast(prev) /\ Streaming(Last(prev))
    THEN Append(ButLast(prev), WithStreaming(Last(prev), FALSE))
    ELSE prev

\* case 'complete' clearing the busy flag only when it ends a streaming
\* message
onComplete_BusyUnlessStreaming(data) ==
    /\ isThinking' = IF HasLast(messages) /\ Streaming(Last(messages))
                     THEN FALSE ELSE isThinking
    /\ currentMessageRef' = <<>>
    /\ messages' = completeUpdater(messages)

\* case 'complete', lines 174-187
onComplete(data) ==
    /\ isThinking' = FALSE
    /\ currentMessageRef' = <<>>
    /\ messages' = completeUpdater(messages)

\* case 'error' ending the streaming message before it appends
onErrorEvent_Finalizes(data) ==
    /\ Len(messages) < MaxMsgs
    /\ isThinking' = FALSE
    /\ messages' = Append(completeUpdater(messages),
           [id |-> now, type |-> "error",
            content |-> <<"Error: ">> \o data.message, timestamp |-> now])
    /\ UNCHANGED currentMessageRef

\* case 'error' dropping the messages logged so far
onErrorEvent_ClearsSession(data) ==
    /\ Len(messages) < MaxMsgs
    /\ isThinking' = FALSE
    /\ messages' = <<[id |-> now, type |-> "error",
                      content |-> <<"Error: ">> \o data.message,
                      timestamp |-> now]>>
    /\ UNCHANGED currentMessageRef

\* case 'error', lines 189-197
onErrorEvent(data) ==
    /\ Len(messages) < MaxMsgs
    /\ isThinking' = FALSE
    /\ messages' = Append(messages,
           [id |-> now, type |-> "error",
            content |-> <<"Error: ">> \o data.message, timestamp |-> now])
    /\ UNCHANGED currentMessageRef

\* case 'pong' taken as the end of the reply
onPong_ClearsBusy(data) ==
    /\ isThinking' = FALSE
    /\ UNCHANGED <<messages, currentMessageRef>>

\* case 'pong', lines 199-201
onPong(data) == UNCHANGED <<messages, isThinking, currentMessageRef>>

handleWebSocketMessage(data) ==
    CASE data.type = "status" -> onStatus(data)
      [] data.type = "chunk" -> onChunk(data)
      [] data.type = "complete" -> onComplete(data)
      [] data.type = "error" -> onErrorEvent(data)
      [] data.type = "pong" -> onPong(data)

\* the name under which lastOp records an inbound event
OpOf(data) ==
    IF data.type = "status" THEN "status:" \o data.status ELSE data.type

\* the chunk run in progress after data has been handled
RunAfter(data) ==
    IF data.type # "chunk" THEN NoRun
    ELSE IF run.active THEN run
    ELSE [active |-> TRUE, base |-> Len(messages),
          cont |-> HasLast(messages) /\ Last(messages).type = "assistant"
                       /\ Streaming(Last(messages))]

\* ws.onmessage, lines 120-123: message events reach an open socket only
WsMessage ==
    /\ UNCHANGED otherVars
    /\ NoTask
    /\ \E s \in SocketIds, data \in InboundEvents :
        /\ sockets[s].readyState = "OPEN"
        /\ handleWebSocketMessage(data)
        /\ run' = RunAfter(data)
        /\ lastOp' = OpOf(data)
    /\ UNCHANGED <<sent, uploads, now, phase, uiVars, connVars>>

----------------------------------------------------------------------------
(* handleSendMessage, lines 205-230.  The handler is taken as callable in  *)
(* every state of the mounted component: the disabled attributes of the    *)
(* input and of the send button (lines 700, 724) repeat its guard and are  *)
(* not relied on.                                                          *)

\* the guard of line 206 without the trim
SendRejected_NoTrim == inputText = <<>> \/ connectionStatus # "connected"

\* the guard of line 206
SendRejected == Trim(inputText) = <<>> \/ connectionStatus # "connected"

ChatFrame ==
    [type |-> "chat", message |-> inputText, webSearch |-> webSearchEnabled,
     thinkingMode |-> thinkingMode, model |-> selectedModel]

ChannelOpen == wsRef # 0 /\ sockets[wsRef].readyState = "OPEN"

handleSendMessage ==
    IF SendRejected
    THEN /\ lastOp' = "submitRejected"
         /\ UNCHANGED <<messages, inputText, sent>>
    ELSE /\ Len(messages) < MaxMsgs
         /\ messages' = Append(messages,
                [id |-> now, type |-> "user", content |-> inputText,
                 timestamp |-> now, webSearch |-> webSearchEnabled,
                 thinking |-> thinkingMode])
         /\ inputText' = <<>>
         /\ sent' = IF ChannelOpen
                    THEN Append(sent, [socket |-> wsRef, frame |-> ChatFrame])
                    ELSE sent
         /\ lastOp' = "submit"

Submit ==
    /\ UNCHANGED otherVars
    /\ phase = "mounted"
    /\ NoTask
    /\ handleSendMessage
    /\ run' = NoRun
    /\ UNCHANGED <<isThinking, webSearchEnabled, thinkingMode, selectedModel,
                   currentMessageRef, uploads, now, phase, connVars>>

----------------------------------------------------------------------------
(* handleFileSelect, lines 236-273 *)

\* up to the fetch of line 247
handleFileSelect ==
    /\ UNCHANGED otherVars
    /\ phase = "mounted"
    /\ NoTask
    /\ \E files \in FileLists :
        IF Len(files) = 0
        THEN UNCHANGED uploads
        ELSE /\ Len(uploads) < MaxUploads
             /\ uploads' = Append(uploads, [files |-> files])
    /\ run' = NoRun
    /\ lastOp' = "fileSelect"
    /\ UNCHANGED <<messages, isThinking, currentMessageRef, sent, now, phase,
                   uiVars, connVars>>

\* result.files: the references the server returns for the uploaded files
ServerFiles(files) == [i \in 1..Len(files) |-> [name |-> files[i], ref |-> i]]

\* files.map(f => f.name).join(', ')
RECURSIVE JoinNames(_)
JoinNames(files) ==
    IF Len(files) = 0 THEN <<>>
    ELSE IF Len(files) = 1 THEN files
    ELSE <<Head(files), ", ">> \o JoinNames(Tail(files))

\* from the response of the fetch on, lines 252-272
uploadSettled(files, outcome) ==
    CASE outcome = "success" ->
            /\ Len(messages) < MaxMsgs
            /\ messages' = Append(messages,
                   [id |-> now, type |-> "user",
                    content |-> <<"Uploaded ", ToString(Len(files)),
                                  " file(s): ">> \o JoinNames(files),
                    timestamp |-> now, files |-> ServerFiles(files)])
      [] outcome = "failure" -> UNCHANGED messages
      [] outcome = "throw" ->
            /\ Len(messages) < MaxMsgs
            /\ messages' = Append(messages,
                   [id |-> now, type |-> "error",
                    content |-> <<"Failed to upload files: ", "error.message">>,
                    timestamp |-> now])

UploadSettle ==
    /\ UNCHANGED otherVars
    /\ NoTask
    /\ \E i \in 1..Len(uploads), outcome \in UploadOutcomes :
        /\ uploadSettled(uploads[i].files, outcome)
        /\ uploads' = RemoveAt(uploads, i)
        /\ lastOp' = "upload_" \o outcome
    /\ run' = NoRun
    /\ UNCHANGED <<isThinking, currentMessageRef, sent, now, phase, uiVars,
                   connVars>>

----------------------------------------------------------------------------
(* The controls of the chat view: the text input (line 697), the web       *)
(* search and thinking mode buttons (lines 610, 631) and the model select  *)
(* (line 437).  They set their state variable and nothing else.            *)

\* the number of modifier controls that differ from their initial value
ModifiersChanged ==
    (IF webSearchEnabled THEN 1 ELSE 0) + (IF thinkingMode THEN 1 ELSE 0)
        + (IF selectedModel # DefaultModel THEN 1 ELSE 0)

sessionVars == <<messages, isThinking, currentMessageRef, sent, uploads, now,
                 phase, run>>

setInputText ==
    /\ UNCHANGED otherVars
    /\ phase = "mounted"
    /\ NoTask
    /\ \E t \in InputTexts : t # inputText /\ inputText' = t
    /\ UNCHANGED <<webSearchEnabled, thinkingMode, selectedModel, sessionVars,
                   connVars>>
    /\ lastOp' = "input"

setWebSearchEnabled ==
    /\ UNCHANGED otherVars
    /\ phase = "mounted"
    /\ NoTask
    /\ webSearchEnabled \/ ModifiersChanged < MaxModifiers
    /\ webSearchEnabled' = ~webSearchEnabled
    /\ UNCHANGED <<inputText, thinkingMode, selectedModel, sessionVars,
                   connVars>>
    /\ lastOp' = "toggleWebSearch"

setThinkingMode ==
    /\ UNCHANGED otherVars
    /\ phase = "mounted"
    /\ NoTask
    /\ thinkingMode \/ ModifiersChanged < MaxModifiers
    /\ thinkingMode' = ~thinkingMode
    /\ UNCHANGED <<inputText, webSearchEnabled, selectedModel, sessionVars,
                   connVars>>
    /\ lastOp' = "toggleThinkingMode"

setSelectedModel ==
    /\ UNCHANGED otherVars
    /\ phase = "mounted"
    /\ NoTask
    /\ selectedModel # DefaultModel \/ ModifiersChanged < MaxModifiers
    /\ \E m \in Models : m # selectedModel /\ selectedModel' = m
    /\ UNCHANGED <<inputText, webSearchEnabled, thinkingMode, sessionVars,
                   connVars>>
    /\ lastOp' = "selectModel"

----------------------------------------------------------------------------
(* The plugin list, lines 276-292 and 322-340.  The toggle requests are    *)
(* followed on their own, apart from the chat: of the mount effect only    *)
(* the call of fetchPlugins is taken here.  A request that fails is one    *)
(* that does not reach the backend: its fetch rejects.                     *)

\* the chat state but for lastOp, phase and selectedModel
chatRest == <<messages, inputText, isThinking, webSearchEnabled, thinkingMode,
              connectionStatus, wsRef, currentMessageRef, sockets, timers,
              sent, uploads, now, connectCalls, run>>

\* what no step of the plugin list changes
pluginFrame == <<chatRest, selectedModel, settingsVars, cliVars>>

\* plugins.find(p => p.id === id), 0 standing for undefined
FindPlugin(ps, id) ==
    IF \E i \in 1..Len(ps) : ps[i].id = id
    THEN CHOOSE i \in 1..Len(ps) :
            ps[i].id = id /\ \A j \in 1..(i - 1) : ps[j].id # id
    ELSE 0

\* plugins.map(p => p.id === id ? { ...p, active: !p.active } : p)
TogglePluginIn(ps, id) ==
    [i \in 1..Len(ps) |->
        IF ps[i].id = id THEN [ps[i] EXCEPT !.active = ~ps[i].active]
        ELSE ps[i]]

\* data.plugins as GET /api/plugins returns them
PluginList ==
    <<[id |-> "weather", active |-> backendPlugins["weather"]],
      [id |-> "search", active |-> backendPlugins["search"]]>>

\* fetchPlugins as called by the mount effect, lines 81 and 276-292
fetchPlugins ==
    /\ phase = "init"
    /\ phase' = "mounted"
    /\ \E ok \in BOOLEAN :
        /\ plugins' = IF ok THEN PluginList ELSE plugins
        /\ lastOp' = IF ok THEN "fetchPlugins" ELSE "fetchPluginsFailed"
    /\ UNCHANGED <<backendPlugins, toggles, pluginFrame>>

\* togglePlugin up to its await, lines 322-333: the request carries the
\* plugins value of the render whose handler was called
togglePlugin(id) ==
    /\ phase = "mounted"
    /\ IF FindPlugin(plugins, id) = 0
       THEN /\ UNCHANGED toggles
            /\ lastOp' = "toggleUnknown"
       ELSE /\ Len(toggles) < MaxToggles
            /\ toggles' = Append(toggles,
                   [id |-> id,
                    enabled |-> ~plugins[FindPlugin(plugins, id)].active,
                    plugins |-> plugins,
                    accepted |-> FALSE])
            /\ lastOp' = "toggle"
    /\ UNCHANGED <<plugins, backendPlugins, phase, pluginFrame>>

TogglePlugin == \E id \in PluginIds : togglePlugin(id)

\* the backend handles POST /api/plugins/toggle
BackendToggle ==
    /\ \E i \in 1..Len(toggles) :
        /\ ~toggles[i].accepted
        /\ backendPlugins' =
              [backendPlugins EXCEPT ![toggles[i].id] = toggles[i].enabled]
        /\ toggles' = [toggles EXCEPT ![i].accepted = TRUE]
    /\ lastOp' = "backendToggle"
    /\ UNCHANGED <<plugins, phase, pluginFrame>>

\* togglePlugin after its await, line 336
toggleResolved(i) ==
    plugins' = TogglePluginIn(toggles[i].plugins, toggles[i].id)

ToggleResolved ==
    /\ \E i \in 1..Len(toggles) :
        /\ toggles[i].accepted
        /\ toggleResolved(i)
        /\ toggles' = RemoveAt(toggles, i)
    /\ lastOp' = "toggleResolved"
    /\ UNCHANGED <<backendPlugins, phase, pluginFrame>>

\* the catch block of togglePlugin, lines 337-339
ToggleFailed ==
    /\ \E i \in 1..Len(toggles) :
        /\ ~toggles[i].accepted
        /\ toggles' = RemoveAt(toggles, i)
    /\ lastOp' = "toggleFailed"
    /\ UNCHANGED <<plugins, backendPlugins, phase, pluginFrame>>

PluginsInit ==
    /\ ChatInit
    /\ SettingsIdle
    /\ CliIdle
    /\ plugins = <<>>
    /\ backendPlugins \in [PluginIds -> BOOLEAN]
    /\ toggles = <<>>

PluginsNext ==
    \/ fetchPlugins
    \/ TogglePlugin
    \/ BackendToggle
    \/ ToggleResolved
    \/ ToggleFailed

SpecPlugins == PluginsInit /\ [][PluginsNext]_vars

----------------------------------------------------------------------------
(* The settings, lines 78-80, 100-103 and 342-367, followed on their own   *)
(* from startup until every request has completed, with no change made by  *)
(* the user.  An empty string stands for a field the backend does not      *)
(* hold.  The backend may handle requests in flight in either order.       *)

\* what no step of the settings changes
settingsFrame == <<chatRest, pluginVars, cliVars>>

SettingsValues == [theme : Themes \cup {""}, model : Models \cup {""}]

LoadRequest == [kind |-> "load", handled |-> FALSE]

\* saveSettings, lines 342-355, called in a render with these values
SaveRequest(theme, model) ==
    [kind |-> "save", handled |-> FALSE,
     body |-> [theme |-> theme, model |-> model]]

\* the mount effect calls loadSettings (line 80); the effect of lines
\* 100-103 then runs for the first render and calls saveSettings
SettingsMount ==
    /\ phase = "init"
    /\ phase' = "mounted"
    /\ settingsReqs' =
          <<LoadRequest, SaveRequest(currentTheme, selectedModel)>>
    /\ lastOp' = "settingsMount"
    /\ UNCHANGED <<currentTheme, selectedModel, backendSettings, persisted,
                   settingsFrame>>

\* the backend answers GET /api/settings with what it holds
BackendLoad ==
    /\ \E i \in 1..Len(settingsReqs) :
        /\ settingsReqs[i].kind = "load"
        /\ ~settingsReqs[i].handled
        /\ settingsReqs' =
              [settingsReqs EXCEPT ![i] =
                  [kind |-> "load", handled |-> TRUE, data |-> backendSettings]]
    /\ lastOp' = "backendLoad"
    /\ UNCHANGED <<currentTheme, selectedModel, backendSettings, persisted,
                   phase, settingsFrame>>

\* the backend stores the body of POST /api/settings
BackendSave ==
    /\ \E i \in 1..Len(settingsReqs) :
        /\ settingsReqs[i].kind = "save"
        /\ ~settingsReqs[i].handled
        /\ backendSettings' = settingsReqs[i].body
        /\ settingsReqs' = [settingsReqs EXCEPT ![i].handled = TRUE]
    /\ lastOp' = "backendSave"
    /\ UNCHANGED <<currentTheme, selectedModel, persisted, phase,
                   settingsFrame>>

\* the saves the effect of lines 100-103 makes when loadSettings has set
\* the theme and the model: one per render in which either has changed.
\* batched tells whether the two updates are applied in one render.
SavesAfterLoad(theme, model, batched) ==
    IF theme = currentTheme /\ model = selectedModel THEN <<>>
    ELSE IF theme # currentTheme /\ model # selectedModel /\ ~batched
    THEN <<SaveRequest(theme, selectedModel), SaveRequest(theme, model)>>
    ELSE <<SaveRequest(theme, model)>>

\* loadSettings after its awaits, lines 359-363: the load is the first
\* request made, so it is the first of the list while it is in flight
LoadResolved ==
    /\ Len(settingsReqs) >= 1
    /\ settingsReqs[1].kind = "load"
    /\ settingsReqs[1].handled
    /\ \E batched \in BOOLEAN :
          LET data == settingsReqs[1].data
              theme == IF data.theme # "" THEN data.theme ELSE currentTheme
              model == IF data.model # "" THEN data.model ELSE selectedModel
          IN  /\ currentTheme' = theme
              /\ selectedModel' = model
              /\ settingsReqs' =
                    Tail(settingsReqs) \o SavesAfterLoad(theme, model, batched)
    /\ lastOp' = "loadResolved"
    /\ UNCHANGED <<backendSettings, persisted, phase, settingsFrame>>

\* saveSettings after its await: nothing is done with the response
SaveResolved ==
    /\ \E i \in 1..Len(settingsReqs) :
        /\ settingsReqs[i].kind = "save"
        /\ settingsReqs[i].handled
        /\ settingsReqs' = RemoveAt(settingsReqs, i)
    /\ lastOp' = "saveResolved"
    /\ UNCHANGED <<currentTheme, selectedModel, backendSettings, persisted,
                   phase, settingsFrame>>

SettingsInit ==
    /\ ChatInit
    /\ PluginsIdle
    /\ CliIdle
    /\ currentTheme = DefaultTheme
    /\ backendSettings \in SettingsValues
    /\ settingsReqs = <<>>
    /\ persisted = backendSettings

SettingsNext ==
    \/ SettingsMount
    \/ BackendLoad
    \/ BackendSave
    \/ LoadResolved
    \/ SaveResolved

SpecSettings == SettingsInit /\ [][SettingsNext]_vars

\* ---------------------------------------------------------------------
\* The command-line client: function ai of ai.ps1
\* ---------------------------------------------------------------------

cliFrame == <<chatRest, selectedModel, phase, pluginVars, settingsVars>>

\* the command lines explored: questions and the empty call with each
\* model and session, the listing, the clearing, the file options with
\* and without their companions, the creation
CliCalls ==
    {[NoCall EXCEPT !.Question = q, !.Model = m, !.Session = n] :
        q \in CliQuestions \cup {<<>>}, m \in CliModels, n \in CliSessions}
    \cup {[NoCall EXCEPT !.ListSessions = TRUE, !.Clear = cl] :
        cl \in BOOLEAN}
    \cup {[NoCall EXCEPT !.Clear = TRUE, !.Session = n, !.Question = q] :
        n \in CliSessions, q \in {<<>>, <<"q1">>}}
    \cup {[NoCall EXCEPT !.File = f, !.Explain = e, !.Edit = ed,
                         !.Question = q] :
        f \in {"", "code.py"}, e \in BOOLEAN, ed \in {"", "fix"},
        q \in {<<>>, <<"q1">>}}
    \cup {[NoCall EXCEPT !.Create = "new.py", !.Question = q, !.Model = m] :
        q \in {<<>>, <<"q1">>}, m \in {"deepseek", "claude"}}

\* the models the switch of lines 54-77 knows
SupportedModels == {"deepseek", "gpt5", "claude"}

\* the models whose environment variable holds a key
ApiKeys == {"deepseek", "claude"}

\* what Invoke-RestMethod and the reading of choices[0] give: an answer;
\* no answer (the request fails or the reply has no choices, the
\* statements report their errors and the function goes on with $null);
\* or the end of the function (the error stops it when
\* $ErrorActionPreference is Stop). The Anthropic URL of line 71 is sent
\* the same Bearer header and body and read the same way as the other
\* two: its reply never has choices.
ApiOutcomes(model) ==
    (IF model = "claude" THEN {}
     ELSE {[kind |-> "answer", content |-> a] : a \in CliAnswers})
    \cup {[kind |-> "noAnswer", content |-> <<>>],
          [kind |-> "abort", content |-> <<>>]}

\* the content of a message whose answer is $null
NullContent == <<>>

\* the branch of the function a call takes, in the order of the code
PathOf(c) ==
    IF c.ListSessions THEN "list"
    ELSE IF c.Clear THEN "clear"
    ELSE IF /\ c.Question = <<>> /\ c.File = "" /\ c.Edit = ""
            /\ c.Create = "" /\ ~c.Explain THEN "help"
    ELSE IF c.Model \notin SupportedModels THEN "unsupported"
    ELSE IF c.Model \notin ApiKeys THEN "nokey"
    ELSE IF c.Edit # "" /\ c.File # "" THEN "edit"
    ELSE IF c.Create # "" THEN "create"
    ELSE "plain"

\* Get-Content -Raw | ConvertFrom-Json: a stored array comes back as an
\* array, a stored single object as that object
LoadHistory(file) ==
    IF file.exists THEN [kind |-> file.kind, items |-> file.items]
    ELSE [kind |-> "array", items |-> <<>>]

\* $messages += @{...}: an array grows by the message; an object that is
\* no array has no addition, the statement fails and leaves it
PlusEq(val, msg) ==
    IF val.kind = "array"
    THEN [kind |-> "array", items |-> Append(val.items, msg)]
    ELSE val

\* $messages | ConvertTo-Json | Out-File: two or more piped objects are
\* written as an array, a single one as an object
SaveHistory(val) ==
    [exists |-> TRUE,
     kind |-> IF val.kind = "array" /\ Len(val.items) >= 2
              THEN "array" ELSE "object",
     items |-> val.items]

\* Get-Content $File -Raw: the text, or nothing for a missing file
FileText(f) == IF userFiles[f].exists THEN userFiles[f].content ELSE <<>>

\* lines 96-99: -Explain with -File replaces the question
QuestionOf(c) ==
    IF c.Explain /\ c.File # ""
    THEN <<"Explain this code in detail:", "\n\n">> \o FileText(c.File)
    ELSE c.Question

\* lines 141-145: the file given with -File, when it exists
ContextOf(c) ==
    IF c.File # "" /\ userFiles[c.File].exists
    THEN <<"File: ", c.File>> \o FileText(c.File)
    ELSE <<>>

\* lines 147-150
WithUserMessage(c, val) ==
    IF QuestionOf(c) # <<>>
    THEN PlusEq(val, [role |-> "user",
                      content |-> ContextOf(c) \o <<"\n">> \o QuestionOf(c)])
    ELSE val

\* lines 166-171: the answer, or $null, is appended and the session saved
SavedSession(c, o) ==
    SaveHistory(PlusEq(WithUserMessage(c, LoadHistory(sessionFiles[c.Session])),
                       [role |-> "assistant",
                        content |-> IF o.kind = "answer" THEN o.content
                                    ELSE NullContent]))

\* lines 115-116 and 134-135: the trimmed answer is written to the file;
\* with no answer Trim() fails and nothing is piped to Out-File
WriteAnswer(f, o) ==
    IF o.kind = "answer"
    THEN userFiles' = [userFiles EXCEPT
                          ![f] = [exists |-> TRUE, content |-> Trim(o.content)]]
    ELSE UNCHANGED userFiles

\* one call of ai
ai(c, o) ==
    /\ UNCHANGED cliFrame
    /\ cliCall' = c
    /\ lastOp' = "cli:" \o PathOf(c)
    /\ CASE PathOf(c) \in {"list", "help", "unsupported", "nokey"} ->
              UNCHANGED <<sessionFiles, userFiles, apiCalls>>
         [] PathOf(c) = "clear" ->
              /\ sessionFiles' = [sessionFiles EXCEPT ![c.Session] = AbsentFile]
              /\ UNCHANGED <<userFiles, apiCalls>>
         [] PathOf(c) = "edit" ->
              /\ apiCalls < MaxApiCalls
              /\ apiCalls' = apiCalls + 1
              /\ WriteAnswer(c.File, o)
              /\ UNCHANGED sessionFiles
         [] PathOf(c) = "create" ->
              /\ apiCalls < MaxApiCalls
              /\ apiCalls' = apiCalls + 1
              /\ WriteAnswer(c.Create, o)
              /\ UNCHANGED sessionFiles
         [] PathOf(c) = "plain" ->
              /\ apiCalls < MaxApiCalls
              /\ apiCalls' = apiCalls + 1
              /\ sessionFiles' =
                    IF o.kind = "abort" THEN sessionFiles
                    ELSE [sessionFiles EXCEPT ![c.Session] = SavedSession(c, o)]
              /\ UNCHANGED userFiles

Ai == \E c \in CliCalls : \E o \in ApiOutcomes(c.Model) : ai(c, o)

CliNext == Ai

SpecCli == Init /\ [][CliNext]_vars

----------------------------------------------------------------------------

Next ==
    \/ Mount
    \/ Teardown
    \/ TimerFire
    \/ WsOpen
    \/ WsStartClosing
    \/ WsError
    \/ WsClose
    \/ WsMessage
    \/ Submit
    \/ handleFileSelect
    \/ UploadSettle
    \/ setInputText
    \/ setWebSearchEnabled
    \/ setThinkingMode
    \/ setSelectedModel
    \/ Tick

Spec == Init /\ [][Next]_vars

----------------------------------------------------------------------------
(* Properties *)

StreamingIds == {i \in 1..Len(messages) : Streaming(messages[i])}

\* the close events dispatched so far, and the connectWebSocket calls made
\* by reconnect timers
Closures == Cardinality({s \in SocketIds : sockets[s].closeEvt = "fired"})
Reconnects == IF phase = "init" THEN 0 ELSE connectCalls - 1

IsCompleteStep == WsMessage /\ lastOp' = "complete"

\* C1: in every reachable state at most one message is streaming, and a
\* streaming message is the last element of the list.
C1_StreamingIsUniqueAndLast ==
    /\ Cardinality(StreamingIds) <= 1
    /\ \A i \in StreamingIds : i = Len(messages)

\* C2: once the cleanup of the mount effect has run, no reconnect timer is
\* pending and no connectWebSocket call is made.
C2_NoReconnectAfterTeardown ==
    [][phase' = "unmounted" =>
          /\ timers' = <<>>
          /\ (phase = "unmounted" => connectCalls' = connectCalls)]_vars

\* C3: a submit whose text is empty after trimming, or that is made while
\* the connection status is not 'connected', leaves the message list and
\* the frames sent unchanged.
C3_RejectedSubmitChangesNothing ==
    [][(Submit /\ (Trim(inputText) = <<>> \/ connectionStatus # "connected"))
          => (messages' = messages /\ sent' = sent)]_vars

C3_Witness ==
    /\ lastOp = "submitRejected"
    /\ inputText = <<WS>>
    /\ connectionStatus = "connected"

\* C4: every accepted submit appends one finalized user message and sends
\* one chat frame with the submitted text, the modifier flags and the model.
C4_AcceptedSubmitSendsOneChat ==
    [][(Submit /\ Trim(inputText) # <<>> /\ connectionStatus = "connected") =>
          /\ Len(messages') = Len(messages) + 1
          /\ Last(messages').type = "user"
          /\ Last(messages').content = inputText
          /\ ~Streaming(Last(messages'))
          /\ Len(sent') = Len(sent) + 1
          /\ Last(sent').frame =
                [type |-> "chat", message |-> inputText,
                 webSearch |-> webSearchEnabled, thinkingMode |-> thinkingMode,
                 model |-> selectedModel]]_vars

\* C5 as stated: a run of chunk events followed by a complete event adds
\* exactly one assistant message, finalized, whose content is the text of
\* the last chunk.
C5_RunAddsOneMessage ==
    [][(IsCompleteStep /\ run.active) =>
          /\ Len(messages') = run.base + 1
          /\ Last(messages').type = "assistant"
          /\ Last(messages').content = currentMessageRef
          /\ ~Streaming(Last(messages'))]_vars

\* C5 as amended: after a run of chunk events followed by a complete event
\* the last message is a finalized assistant message whose content is the
\* text of the last chunk; the run adds one message when the last message
\* before it was not a streaming assistant message, and none otherwise.
C5_RunFinalizesLastChunk ==
    [][(IsCompleteStep /\ run.active) =>
          /\ Len(messages') = run.base + (IF run.cont THEN 0 ELSE 1)
          /\ Last(messages').type = "assistant"
          /\ Last(messages').content = currentMessageRef
          /\ ~Streaming(Last(messages'))]_vars

C5_Witness ==
    /\ lastOp = "complete"
    /\ HasLast(messages)
    /\ Last(messages).type = "assistant"
    /\ Last(messages).content = <<"Hi", " there">>
    /\ ~Streaming(Last(messages))

\* C6: after a complete event has been applied no message is streaming.
C6_CompleteFinalizesAll ==
    [][IsCompleteStep => StreamingIds' = {}]_vars

\* C7: no two messages of the list have the same id.
C7_UniqueIds ==
    \A i, j \in 1..Len(messages) : i # j => messages[i].id # messages[j].id

\* C8: the content of a message that is not streaming is the same after
\* every step.
C8_FinalizedContentImmutable ==
    [][\A i \in 1..Len(messages) :
          ~Streaming(messages[i]) =>
              /\ i <= Len(messages')
              /\ messages'[i].content = messages[i].content]_vars

C8_Witness ==
    /\ lastOp = "chunk"
    /\ \E i \in 1..(Len(messages) - 1) :
          messages[i].type = "assistant" /\ ~Streaming(messages[i])

C10_ReconnectAlwaysPending ==
    phase = "mounted" =>
        \/ \E s \in SocketIds : sockets[s].closeEvt # "fired"
        \/ timers # <<>>

\* the channels of the component: the sockets that are opening or open
LiveChannels ==
    {s \in SocketIds : sockets[s].readyState \in {"CONNECTING", "OPEN"}}

\* C11: in every reachable state at most one reconnect timer is pending.
C11_AtMostOneTimerPending == Len(timers) <= 1

C11_Witness ==
    /\ lastOp = "wsClose"
    /\ Closures = 2
    /\ Len(timers) = 1

C13_SendWhileClosedReportsError ==
    [][(Submit /\ Trim(inputText) # <<>> /\ connectionStatus = "connected"
            /\ ~ChannelOpen) =>
          /\ sent' = sent
          /\ \/ /\ Len(messages') = Len(messages) + 1
                /\ Last(messages').type = "error"
             \/ /\ connectionStatus # "error"
                /\ connectionStatus' = "error"]_vars

\* C14: the connection status is one of disconnected, connecting,
\* connected, error, and it changes only along disconnected -> connecting
\* -> connected -> disconnected, or to error from connecting or connected
\* (the claim is silent about leaving error: both ways on are allowed).
C14_ConnectionStateMachine ==
    [][LET allowed ==
              { <<"disconnected", "connecting">>, <<"connecting", "connected">>,
                <<"connected", "disconnected">>, <<"connecting", "error">>,
                <<"connected", "error">>, <<"error", "disconnected">>,
                <<"error", "connecting">> }
       IN  /\ connectionStatus' \in
                  {"disconnected", "connecting", "connected", "error"}
           /\ connectionStatus' # connectionStatus =>
                  <<connectionStatus, connectionStatus'>> \in allowed]_vars

\* C15: the response of an upload appends a message exactly when it
\* reports success, and then one finalized user message with the file
\* references of the server; a failed request or a response that does not
\* report success leaves the message list unchanged.
C15_UploadAppendsOnlyOnSuccess ==
    [][UploadSettle =>
          IF lastOp' = "upload_success"
          THEN /\ Len(messages') = Len(messages) + 1
               /\ SubSeq(messages', 1, Len(messages)) = messages
               /\ Last(messages').type = "user"
               /\ ~Streaming(Last(messages'))
               /\ \E i \in 1..Len(uploads) :
                     /\ uploads' = RemoveAt(uploads, i)
                     /\ Last(messages').files = ServerFiles(uploads[i].files)
          ELSE messages' = messages]_vars

\* C16 as stated: a complete event received while the last message is not
\* streaming, or the list is empty, changes neither the list nor the busy
\* flag; otherwise it sets streaming to false on the last message and
\* clears the busy flag.
C16_CompleteNoopUnlessStreaming ==
    [][IsCompleteStep =>
          IF HasLast(messages) /\ Streaming(Last(messages))
          THEN /\ messages' = [messages EXCEPT ![Len(messages)].streaming = FALSE]
               /\ isThinking' = FALSE
          ELSE /\ messages' = messages
               /\ isThinking' = isThinking]_vars

\* C16 as amended: a complete event always clears the busy flag; when the
\* last message is streaming it sets streaming to false on that message,
\* and otherwise it leaves the message list unchanged.
C16_CompleteClearsBusy ==
    [][IsCompleteStep =>
          /\ isThinking' = FALSE
          /\ messages' =
                IF HasLast(messages) /\ Streaming(Last(messages))
                THEN [messages EXCEPT ![Len(messages)].streaming = FALSE]
                ELSE messages]_vars

C16_Witness ==
    /\ lastOp = "complete"
    /\ HasLast(messages)
    /\ Last(messages).type = "system"
    /\ ~isThinking

\* C17: a close event appends no message and leaves the busy flag false.
C17_CloseClearsBusy ==
    [][WsClose => (messages' = messages /\ isThinking' = FALSE)]_vars

\* C18: an error event appends one finalized error message at the end,
\* clears the busy flag and leaves every message that was there unchanged,
\* a streaming one included.
C18_ErrorAppendsAndKeepsOthers ==
    [][(WsMessage /\ lastOp' = "error") =>
          /\ Len(messages') = Len(messages) + 1
          /\ SubSeq(messages', 1, Len(messages)) = messages
          /\ Last(messages').type = "error"
          /\ ~Streaming(Last(messages'))
          /\ isThinking' = FALSE]_vars

C18_Witness ==
    /\ lastOp = "error"
    /\ Len(messages) >= 2
    /\ Last(messages).type = "error"
    /\ Streaming(messages[Len(messages) - 1])

\* C19: a chunk event with cumulative text t replaces the content of the
\* last message by t when that message is a streaming assistant message,
\* the list keeping its length, and otherwise appends one assistant
\* message with content t and streaming true; the other messages are
\* unchanged.  (t is what the handler stores in currentMessageRef.)
C19_ChunkReplacesOrAppends ==
    [][(WsMessage /\ lastOp' = "chunk") =>
          IF /\ HasLast(messages)
             /\ Last(messages).type = "assistant"
             /\ Streaming(Last(messages))
          THEN messages' =
                  [messages EXCEPT ![Len(messages)].content = currentMessageRef']
          ELSE /\ Len(messages') = Len(messages) + 1
               /\ SubSeq(messages', 1, Len(messages)) = messages
               /\ Last(messages').type = "assistant"
               /\ Last(messages').content = currentMessageRef'
               /\ Last(messages').streaming = TRUE]_vars

C19_Witness ==
    /\ lastOp = "chunk"
    /\ run.active
    /\ run.cont
    /\ Len(messages) = run.base
    /\ Last(messages).content = <<"Hi", " there">>

\* C20: a status event never changes the message list, and the status
\* event that announces the start of processing sets the busy flag.
C20_StatusSetsBusyOnly ==
    [][(WsMessage /\ lastOp' \in {"status:thinking", "status:idle"}) =>
          /\ messages' = messages
          /\ lastOp' = "status:thinking" => isThinking' = TRUE]_vars

C20_Witness ==
    /\ lastOp = "status:thinking"
    /\ isThinking
    /\ messages # <<>>


\* C21: every open event appends exactly one finalized system message and
\* leaves each message that was there as it was, a streaming one included.
C21_OpenAppendsOneSystemMessage ==
    [][WsOpen =>
          /\ Len(messages') = Len(messages) + 1
          /\ SubSeq(messages', 1, Len(messages)) = messages
          /\ Last(messages').type = "system"
          /\ ~Streaming(Last(messages'))]_vars

C21_Witness ==
    /\ lastOp = "open"
    /\ Len(messages) >= 2
    /\ Last(messages).type = "system"
    /\ Streaming(messages[Len(messages) - 1])

\* C22: across every step the message list does not get shorter, and every
\* message other than a last message that is a streaming assistant message
\* keeps its position, id, type and content.
C22_AppendOnlyExceptTrailing ==
    [][/\ Len(messages') >= Len(messages)
       /\ \A i \in 1..Len(messages) :
             ~(/\ i = Len(messages)
               /\ messages[i].type = "assistant"
               /\ Streaming(messages[i])) =>
                  /\ messages'[i].id = messages[i].id
                  /\ messages'[i].type = messages[i].type
                  /\ messages'[i].content = messages[i].content]_vars

C22_Witness ==
    /\ lastOp = "chunk"
    /\ run.active
    /\ run.cont
    /\ Len(messages) >= 2
    /\ messages[1].type = "system"

\* C23: an error event of the backend and an upload that fails leave the
\* connection status, the channel and the reconnect timers unchanged and
\* keep every message logged before; the text typed and the state of the
\* sockets, which decide whether submits and inbound events are handled,
\* are unchanged as well.
C23_ErrorsKeepSessionAndChannel ==
    [][(\/ WsMessage /\ lastOp' = "error"
        \/ UploadSettle /\ lastOp' \in {"upload_failure", "upload_throw"}) =>
          /\ connectionStatus' = connectionStatus
          /\ wsRef' = wsRef
          /\ sockets' = sockets
          /\ timers' = timers
          /\ inputText' = inputText
          /\ Len(messages') >= Len(messages)
          /\ SubSeq(messages', 1, Len(messages)) = messages]_vars

C23_Witness ==
    /\ lastOp = "submit"
    /\ Len(messages) >= 2
    /\ messages[Len(messages) - 1].type = "error"
    /\ Last(messages).type = "user"
    /\ sent # <<>>

\* C24: a pong event leaves the message list, the busy flag and the
\* connection status unchanged.
C24_PongIsSilent ==
    [][(WsMessage /\ lastOp' = "pong") =>
          /\ messages' = messages
          /\ isThinking' = isThinking
          /\ connectionStatus' = connectionStatus]_vars

C24_Witness ==
    /\ lastOp = "pong"
    /\ isThinking
    /\ HasLast(messages)
    /\ Streaming(Last(messages))

\* C25: whenever the connection status displayed is 'connected' (the
\* component is mounted and shows it), wsRef holds a socket whose
\* readyState is OPEN.
C25_ConnectedMeansOpen ==
    (phase = "mounted" /\ connectionStatus = "connected") =>
        (wsRef # 0 /\ sockets[wsRef].readyState = "OPEN")

\* C26: once no toggle request is in flight, the active flag of every
\* plugin of the list equals the enabled flag the backend holds for it,
\* and a toggle request that fails leaves the list unchanged.
C26_TogglesNotLost ==
    [][/\ (plugins' # <<>> /\ toggles' = <<>>) =>
              \A i \in 1..Len(plugins') :
                  plugins'[i].active = backendPlugins'[plugins'[i].id]
       /\ lastOp' = "toggleFailed" => plugins' = plugins]_vars

\* C27: when the backend held a theme and a model at startup, then once
\* the load and every save of the startup have completed the backend holds
\* the same settings and the client shows them.
C27_StartupKeepsPersisted ==
    (/\ phase = "mounted"
     /\ settingsReqs = <<>>
     /\ persisted.theme # ""
     /\ persisted.model # "") =>
        /\ backendSettings = persisted
        /\ currentTheme = persisted.theme
        /\ selectedModel = persisted.model


\* C28: a plain question asked in session s with a supported model whose
\* API key is set leaves the session file of s holding the history stored
\* before, then the new user message, then the assistant's answer, in
\* that order.
C28_QuestionAppendsPair ==
    [][(/\ lastOp' = "cli:plain"
        /\ apiCalls' # apiCalls
        /\ cliCall'.Question # <<>>
        /\ cliCall'.File = "" /\ cliCall'.Edit = "" /\ ~cliCall'.Explain)
       => LET old == sessionFiles[cliCall'.Session]
              new == sessionFiles'[cliCall'.Session]
              hist == IF old.exists THEN old.items ELSE <<>>
              n == Len(hist)
          IN /\ new.exists
             /\ Len(new.items) = n + 2
             /\ SubSeq(new.items, 1, n) = hist
             /\ new.items[n + 1] =
                    [role |-> "user",
                     content |-> <<"\n">> \o cliCall'.Question]
             /\ new.items[n + 2].role = "assistant"
             /\ new.items[n + 2].content \in CliAnswers]_vars

\* C29: only a plain question writes a session file: the listing, help,
\* -Edit, -Create, unsupported-model and missing-key calls leave every
\* session file unchanged, the last two make no API request, and -Clear
\* removes the file of the named session only and changes nothing when
\* that session has no file.
C29_OnlyQuestionsWriteSessions ==
    [][/\ sessionFiles' # sessionFiles
          => \/ lastOp' = "cli:clear"
             \/ /\ \/ cliCall'.Question # <<>>
                   \/ cliCall'.Explain /\ cliCall'.File # ""
                /\ cliCall'.Edit = ""
                /\ cliCall'.Create = ""
                /\ ~cliCall'.ListSessions
       /\ lastOp' \in {"cli:unsupported", "cli:nokey"}
          => apiCalls' = apiCalls
       /\ lastOp' = "cli:clear"
          => /\ \A n \in CliSessions \ {cliCall'.Session} :
                    sessionFiles'[n] = sessionFiles[n]
             /\ ~sessionFiles'[cliCall'.Session].exists]_vars

====
